---- MODULE Spec2Model ----
(***************************************************************************)
(* Control link of the pizboat repository: the vehicle server              *)
(* (src/boat_serv.py, class PizBoat) and the handheld remote               *)
(* (src/remote_serv.py, class PizRemote).                                  *)
(*                                                                         *)
(* BoatSpec   : PizBoat.run / handleClient against an arbitrary client.    *)
(* RemoteSpec : PizRemote.run / doLoop / updateScreenLoop against an       *)
(*              arbitrary peer.                                            *)
(* RemoteLiveSpec  : the main thread of PizRemote with fair connects.      *)
(* ActuatorSpec    : one call of Actuator.updateValue.                     *)
(* CircBufferSpec  : one CircBuffer under add and average.                 *)
(* LinkQualitySpec : PizRemote.updateLinkQuality under any readings.       *)
(***************************************************************************)
EXTENDS Integers, Sequences, FiniteSets, TLC

VARIABLES
    \* ---- vehicle server (boat_serv.py) ----
    bpc,          \* position of PizBoat.run: "run" | "accept" | "active" | "raised"
    value,        \* Actuator.value of each actuator
    pwm,          \* last pulse width given to pi.set_servo_pulsewidth, per pin
    json_data,    \* handleClient's local json_data (last payload that parsed)
    sent,         \* acks sent on the current client socket, oldest first
    sessions,     \* number of clients accepted so far
    blog,         \* what the server logged last (logger.info in run / handleClient)
    \* ---- handheld remote (remote_serv.py) ----
    rpc,          \* position of PizRemote.run / doLoop
    isConnected,  \* PizRemote.isConnected
    cnt,          \* run's local attempt counter
    nbConnects,   \* PizRemote.nbConnects
    nbPackets,    \* PizRemote.nbPackets
    linkQualityMin,
    linkQualityMax,
    leds,         \* last level written to each LED, by index in leds_pins
    screenStats,  \* PizRemote.screenStats: linkQuality, safran_val, moteur_val
    cur,          \* doLoop's locals safran_val, moteur_val, linkQuality
    spc,          \* position of the display thread in updateScreenLoop / updateScreen
    shown,        \* updateScreen's locals linkQuality, safran_val, moteur_val
    published,    \* the triples a doLoop cycle has finished publishing
    rlog,         \* what the remote logged last (logger.warning / logger.info)
    wire,         \* ts of the messages sent on self.sock that the peer has not answered
    tsMessageSent, \* doLoop's local tsMessageSent (0 outside a cycle)
    ack,          \* doLoop's local ack: the keys of the parsed object and its ts
    \* ---- one Actuator (boat_serv.py, lines 34-49) ----
    actuator,     \* the object: its name and its value
    json,         \* json[self.name] of the updateValue call
    conditioned,  \* updateValue has returned
    \* ---- one CircBuffer (lines 16-32 of boat_serv.py, 25-41 of remote_serv.py) ----
    buffer,       \* CircBuffer.buffer, slots 0 .. max_size - 1
    size,         \* CircBuffer.size
    max_size,     \* CircBuffer.max_size
    index,        \* CircBuffer.index
    added,        \* every value given to add so far, oldest first
    averaged      \* what average() returned last, as a fraction; NoAverage after an add

boatVars == <<bpc, value, pwm, json_data, sent, sessions, blog>>

remoteVars == <<rpc, isConnected, cnt, nbConnects, nbPackets, linkQualityMin,
                linkQualityMax, leds, screenStats, cur, spc, shown, published, rlog,
                wire, tsMessageSent, ack>>

actuatorVars == <<actuator, json, conditioned>>

circVars == <<buffer, size, max_size, index, added, averaged>>

vars == <<boatVars, remoteVars, actuatorVars, circVars>>

(***************************************************************************)
(* Bounds of the model.                                                    *)
(***************************************************************************)
MaxSessions == 2
MaxMsgs == 2
MaxCnt == 3
MaxConnects == 2
MaxPackets == 2

(***************************************************************************)
(* boat_serv.py: actuators                                                 *)
(***************************************************************************)
ActuatorOrder == <<"safran", "moteur", "ecoute_gv", "ecoute_foc">>

Actuators == {ActuatorOrder[i] : i \in 1..Len(ActuatorOrder)}

value_mid(a) ==
    CASE a = "safran" -> 1450
      [] a = "moteur" -> 1400
      [] a = "ecoute_gv" -> 1450
      [] a = "ecoute_foc" -> 1450

value_range(a) ==
    CASE a = "safran" -> 600
      [] a = "moteur" -> 800
      [] a = "ecoute_gv" -> 1000
      [] a = "ecoute_foc" -> 1000

dead_range(a) ==
    CASE a = "safran" -> 30
      [] a = "moteur" -> 50
      [] a = "ecoute_gv" -> 50
      [] a = "ecoute_foc" -> 50

pin(a) ==
    CASE a = "safran" -> {23, 24}
      [] a = "moteur" -> {25}
      [] a = "ecoute_gv" -> {22}
      [] a = "ecoute_foc" -> {27}

AllPins == UNION {pin(a) : a \in Actuators}

\* value_mid - value_range / 2, times two (the ranges are even, so the
\* float of line 41 is a whole number)
value_min(a) == (2 * value_mid(a) - value_range(a)) \div 2

Abs(x) == IF x < 0 THEN -x ELSE x

\* Python's int() of the quotient n / d, d > 0: truncation toward zero
IntTrunc(n, d) == IF n >= 0 THEN n \div d ELSE -((-n) \div d)

\* updateValue without the test of lines 48-49
updateValueNoDeadZone(a, r) ==
    IntTrunc(value_min(a) * 65536 + r * value_range(a), 65536)

\* Actuator.updateValue for a present key json[name] = r
updateValue(a, r) ==
    LET v == IntTrunc(value_min(a) * 65536 + r * value_range(a), 65536)
    IN IF Abs(v - value_mid(a)) < dead_range(a) THEN value_mid(a) ELSE v

(***************************************************************************)
(* boat_serv.py: payloads a client can put on the socket                   *)
(***************************************************************************)
Keys == Actuators \cup {"ts"}

RawVals == {0, 32768}

TsVals == {1000, 2000}

\* what get_wireless_link_quality can return: -1 (read failure) or a reading
LinkQualities == {-1, 45}

\* the key set of the message PizRemote.doLoop sends (remote_serv.py:182)
DoLoopKeys == {"safran", "moteur", "ts"}

KeySets == {Keys, DoLoopKeys, {}} \cup {Keys \ {k} : k \in Keys}

\* a JSON object with the keys ks; absent keys carry no information
Message(ks, v, t) ==
    [keys |-> ks,
     val |-> [a \in Actuators |-> IF a \in ks THEN v[a] ELSE 0],
     ts |-> IF "ts" \in ks THEN t ELSE 0]

Messages == {Message(ks, v, t) : ks \in KeySets, v \in [Actuators -> RawVals], t \in TsVals}

\* json_data before any payload has parsed
NoData == [keys |-> {}, val |-> [a \in Actuators |-> 0], ts |-> 0]

\* Ack that stamps a fixed ts instead of echoing the one received
AckNoEcho(t, q) == [status |-> "ok", ts |-> 0, linkQuality |-> q]

Ack(t, q) == [status |-> "ok", ts |-> t, linkQuality |-> q]

(***************************************************************************)
(* boat_serv.py: PizBoat.run and PizBoat.handleClient                      *)
(***************************************************************************)
InitBoat ==
    /\ bpc = "run"
    /\ value = [a \in Actuators |-> value_mid(a)]
    /\ pwm = [p \in AllPins |-> LET a == CHOOSE x \in Actuators : p \in pin(x)
                                IN value_mid(a)]
    /\ json_data = NoData
    /\ sent = <<>>
    /\ sessions = 0
    /\ blog = "Starting PIZ Boat Now !"

\* run, line 103: "Reinit boat engine", then wait in accept
Reinit ==
    /\ bpc = "run"
    /\ pwm' = [p \in AllPins |-> IF p \in pin("moteur") THEN value_mid("moteur") ELSE pwm[p]]
    /\ bpc' = "accept"
    /\ blog' = "Waiting connection.."
    /\ UNCHANGED <<value, json_data, sent, sessions>>

\* run, lines 105-108: accept returns a client, handleClient starts
Accept ==
    /\ bpc = "accept"
    /\ sessions < MaxSessions
    /\ sessions' = sessions + 1
    /\ sent' = <<>>
    /\ json_data' = NoData
    /\ bpc' = "active"
    /\ blog' = "client connected"
    /\ UNCHANGED <<value, pwm>>

\* handleClient, lines 122-125: select times out, break
SelectTimeout ==
    /\ bpc = "active"
    /\ bpc' = "run"
    /\ blog' = "Not ready !"
    /\ UNCHANGED <<value, pwm, json_data, sent, sessions>>

\* RecvEmpty without the length test of line 127: json.loads gets b"" and raises
RecvEmptyParsed ==
    /\ bpc = "active"
    /\ bpc' = "raised"
    /\ blog' = "Empty buffer !"
    /\ UNCHANGED <<value, pwm, json_data, sent, sessions>>

\* handleClient, lines 126-129: zero-byte read, break
RecvEmpty ==
    /\ bpc = "active"
    /\ bpc' = "run"
    /\ blog' = "Empty buffer !"
    /\ UNCHANGED <<value, pwm, json_data, sent, sessions>>

\* handleClient, lines 130 and 142-145: json.loads raises; the handler closes
\* the client and re-raises; run has no handler, so the exception leaves run
\* and the process ends
ParseFailure ==
    /\ bpc = "active"
    /\ bpc' = "raised"
    /\ blog' = "Unexpected JSONDecodeError"
    /\ UNCHANGED <<value, pwm, json_data, sent, sessions>>

\* number of actuators of ActuatorOrder the loop of lines 132-134 handles
\* before json[self.name] raises KeyError (all four when none is missing)
Applied(l) ==
    LET missing == {i \in 1..Len(ActuatorOrder) : ActuatorOrder[i] \notin l.keys}
    IN IF missing = {} THEN Len(ActuatorOrder)
       ELSE (CHOOSE i \in missing : \A j \in missing : i <= j) - 1

\* the actuators reached by the loop of lines 132-134
Reached(l) == {ActuatorOrder[i] : i \in 1..Applied(l)}

\* the loop of lines 132-134 raises, or line 136 raises
Raises(l) == Applied(l) < Len(ActuatorOrder) \/ "ts" \notin l.keys

\* updatePwm that takes a pin list for a single pin: only its first pin is driven
updatePwmFirstPin(a) == {CHOOSE p \in pin(a) : \A q \in pin(a) : p <= q}

\* updatePwm, lines 110-117: the pins driven for actuator a (every pin of a
\* list, or the single pin)
updatePwm(a) == pin(a)

\* handleClient, lines 130-146, for a payload that parses: l is the payload,
\* q what get_wireless_link_quality returns, sendOk whether client.send succeeds
HandleMessage(l, q, sendOk) ==
    /\ bpc = "active"
    /\ Len(sent) < MaxMsgs
    /\ json_data' = l
    /\ value' = [a \in Actuators |->
                    IF a \in Reached(l) THEN updateValue(a, l.val[a]) ELSE value[a]]
    /\ pwm' = [p \in AllPins |->
                    LET a == CHOOSE x \in Actuators : p \in pin(x)
                    IN IF a \in Reached(l) /\ p \in updatePwm(a)
                       THEN value'[a] ELSE pwm[p]]
    /\ IF ~Raises(l) /\ sendOk
       THEN /\ sent' = Append(sent, Ack(l.ts, q))
            /\ bpc' = "active"
            /\ blog' = "safran= moteur= ecoute_gv= ecoute_foc="
       ELSE /\ sent' = sent
            /\ bpc' = "raised"
            /\ blog' = IF Raises(l) THEN "Unexpected KeyError"
                                    ELSE "Unexpected ConnectionResetError"
    /\ UNCHANGED sessions

BoatNext ==
    \/ Reinit /\ UNCHANGED <<remoteVars, actuatorVars, circVars>>
    \/ Accept /\ UNCHANGED <<remoteVars, actuatorVars, circVars>>
    \/ SelectTimeout /\ UNCHANGED <<remoteVars, actuatorVars, circVars>>
    \/ RecvEmpty /\ UNCHANGED <<remoteVars, actuatorVars, circVars>>
    \/ ParseFailure /\ UNCHANGED <<remoteVars, actuatorVars, circVars>>
    \/ \E l \in Messages, q \in LinkQualities, sendOk \in BOOLEAN :
         HandleMessage(l, q, sendOk) /\ UNCHANGED <<remoteVars, actuatorVars, circVars>>

(***************************************************************************)
(* remote_serv.py: PizRemote                                               *)
(***************************************************************************)
NbLeds == 8

LedIdx == 0..(NbLeds - 1)

\* what readChannel can return: a 10-bit sample times 64 (lines 77-80)
AdcReadings == {0, 65472}

\* the acks a peer can put on the socket: which keys the object has and its
\* linkQuality
AckKeys == {"status", "ts", "myTs", "linkQuality"}

AckKeySets == {AckKeys} \cup {AckKeys \ {k} : k \in AckKeys}

\* doLoop has no parsed ack
NoAck == [keys |-> {}, ts |-> 0]

\* now(), lines 22-23, read by doLoop (line 178) in the cycle that sends
\* packet number n: integer milliseconds, later at every later packet
Now(n) == 1000 * n

Snapshot(lq, s, m) == [linkQuality |-> lq, safran_val |-> s, moteur_val |-> m]

\* run, lines 136-137: the "searching" animation of attempt c
Searching(c) == [p \in LedIdx |-> IF p = c % NbLeds THEN 1 ELSE 0]

\* QualityLeds with p <= lv for p < lv
QualityLedsInclusive(lq) ==
    [p \in LedIdx |-> IF p * 40 <= (lq - 30) * NbLeds THEN 1 ELSE 0]

\* updateLinkQuality, lines 248-250: lv = (linkQuality - 30) * 8 / 40, p < lv
QualityLeds(lq) == [p \in LedIdx |-> IF p * 40 < (lq - 30) * NbLeds THEN 1 ELSE 0]

Min2(a, b) == IF a < b THEN a ELSE b

Max2(a, b) == IF a > b THEN a ELSE b

InitRemote ==
    /\ rpc = "connecting"
    /\ isConnected = FALSE
    /\ cnt = 0
    /\ nbConnects = 0
    /\ nbPackets = 0
    /\ linkQualityMin = 100
    /\ linkQualityMax = 0
    /\ leds = [p \in LedIdx |-> 0]
    /\ screenStats = Snapshot(0, 0, 0)
    /\ cur = Snapshot(0, 0, 0)
    /\ spc = "sleep"
    /\ shown = Snapshot(0, 0, 0)
    /\ published = {Snapshot(0, 0, 0)}
    /\ rlog = "Starting PIZ Remote Now !"
    /\ wire = <<>>
    /\ tsMessageSent = 0
    /\ ack = NoAck

screenVars == <<spc, shown>>

\* ConnectFail with an except clause that does not catch what connect raised
ConnectFailEscapes ==
    /\ rpc = "connecting"
    /\ cnt < MaxCnt
    /\ leds' = Searching(cnt)
    /\ rpc' = "raised"
    /\ rlog' = "Could not connect"
    /\ wire' = <<>>
    /\ UNCHANGED <<cnt, isConnected, nbConnects, nbPackets, linkQualityMin,
                   linkQualityMax, screenStats, cur, published, screenVars,
                   tsMessageSent, ack>>

\* run, lines 135-153, one attempt in which connect raises: a new socket
\* (line 104), the bare except swallows the error, sleep(1), cnt += 1
ConnectFail ==
    /\ rpc = "connecting"
    /\ cnt < MaxCnt
    /\ leds' = Searching(cnt)
    /\ cnt' = cnt + 1
    /\ rlog' = "Could not connect"
    /\ wire' = <<>>
    /\ UNCHANGED <<rpc, isConnected, nbConnects, nbPackets, linkQualityMin,
                   linkQualityMax, screenStats, cur, published, screenVars,
                   tsMessageSent, ack>>

\* ConnectOk with connect keeping the socket it already has (no line 104)
ConnectOkSameSocket ==
    /\ rpc = "connecting"
    /\ nbConnects < MaxConnects
    /\ nbConnects' = nbConnects + 1
    /\ isConnected' = TRUE
    /\ cnt' = cnt + 1
    /\ leds' = [Searching(cnt) EXCEPT ![0] = 1]
    /\ rlog' = "Connected !"
    /\ rpc' = "doLoop"
    /\ UNCHANGED <<nbPackets, linkQualityMin, linkQualityMax, screenStats, cur,
                   published, screenVars, wire, tsMessageSent, ack>>

\* run, lines 135-154, one attempt in which connect succeeds on a new socket
\* (line 104): the inner loop ends and LED 0 is lit
ConnectOk ==
    /\ rpc = "connecting"
    /\ nbConnects < MaxConnects
    /\ nbConnects' = nbConnects + 1
    /\ isConnected' = TRUE
    /\ cnt' = cnt + 1
    /\ leds' = [Searching(cnt) EXCEPT ![0] = 1]
    /\ rlog' = "Connected !"
    /\ rpc' = "doLoop"
    /\ wire' = <<>>
    /\ UNCHANGED <<nbPackets, linkQualityMin, linkQualityMax, screenStats, cur,
                   published, screenVars, tsMessageSent, ack>>

\* run, lines 133-135 after doLoop has ended with isConnected false: the outer
\* loop starts over with cnt = 0; doLoop's locals are gone
Disconnected(msg) ==
    /\ isConnected' = FALSE
    /\ rpc' = "connecting"
    /\ cnt' = 0
    /\ rlog' = msg
    /\ tsMessageSent' = 0
    /\ ack' = NoAck

\* doLoop, line 182 raises ConnectionResetError or BrokenPipeError; run,
\* lines 160-162
SendReset ==
    /\ rpc = "doLoop"
    /\ nbPackets < MaxPackets
    /\ leds' = [leds EXCEPT ![0] = 0]
    /\ Disconnected("Connection reset !")
    /\ UNCHANGED <<nbConnects, nbPackets, linkQualityMin, linkQualityMax,
                   screenStats, cur, published, screenVars, wire>>

\* NoReadiness without the assignment of line 190: the next cycle sends on
\* the same socket
NoReadinessStaysConnected ==
    /\ rpc = "doLoop"
    /\ nbPackets < MaxPackets
    /\ leds' = [leds EXCEPT ![0] = 1]
    /\ nbPackets' = nbPackets + 1
    /\ wire' = Append(wire, Now(nbPackets + 1))
    /\ cnt' = 0
    /\ rlog' = "Lost connection !"
    /\ UNCHANGED <<rpc, isConnected, nbConnects, linkQualityMin, linkQualityMax,
                   screenStats, cur, published, screenVars, tsMessageSent, ack>>

\* doLoop, lines 168-191: the message is sent and select times out
NoReadiness ==
    /\ rpc = "doLoop"
    /\ nbPackets < MaxPackets
    /\ leds' = [leds EXCEPT ![0] = 0]
    /\ nbPackets' = nbPackets + 1
    /\ wire' = Append(wire, Now(nbPackets + 1))
    /\ Disconnected("Lost connection !")
    /\ UNCHANGED <<nbConnects, linkQualityMin, linkQualityMax, screenStats, cur,
                   published, screenVars>>

\* EmptyAck without the assignment of line 197: the loop goes on as connected
EmptyAckStaysConnected ==
    /\ rpc = "doLoop"
    /\ nbPackets < MaxPackets
    /\ leds' = [leds EXCEPT ![0] = 1]
    /\ nbPackets' = nbPackets + 1
    /\ cnt' = 0
    /\ rlog' = "Empty ack message !"
    /\ wire' = Append(wire, Now(nbPackets + 1))
    /\ UNCHANGED <<rpc, isConnected, nbConnects, linkQualityMin, linkQualityMax,
                   screenStats, cur, published, screenVars, tsMessageSent, ack>>

\* doLoop, lines 193-198: zero-length read
EmptyAck ==
    /\ rpc = "doLoop"
    /\ nbPackets < MaxPackets
    /\ leds' = [leds EXCEPT ![0] = 0]
    /\ nbPackets' = nbPackets + 1
    /\ wire' = Append(wire, Now(nbPackets + 1))
    /\ Disconnected("Empty ack message !")
    /\ UNCHANGED <<nbConnects, linkQualityMin, linkQualityMax, screenStats, cur,
                   published, screenVars>>

\* run, lines 163-166: an exception other than the two of line 160 is logged
\* and raised again; it leaves run
Fatal(msg) ==
    /\ rpc' = "raised"
    /\ rlog' = msg
    /\ tsMessageSent' = 0
    /\ ack' = NoAck
    /\ UNCHANGED <<isConnected, cnt>>

\* doLoop, lines 200-204: json.loads raises, the handler logs and re-raises
InvalidJson ==
    /\ rpc = "doLoop"
    /\ nbPackets < MaxPackets
    /\ leds' = [leds EXCEPT ![0] = 0]
    /\ nbPackets' = nbPackets + 1
    /\ wire' = Append(wire, Now(nbPackets + 1))
    /\ Fatal("Invalid JSON contents")
    /\ UNCHANGED <<nbConnects, linkQualityMin, linkQualityMax, screenStats, cur,
                   published, screenVars>>

\* doLoop, lines 208-209: the keys the loop reads from the ack
ReadAckKeys == {"ts", "linkQuality"}

\* updateLinkQuality, lines 244-250
updateLinkQuality(lq) ==
    /\ linkQualityMin' = Min2(lq, linkQualityMin)
    /\ linkQualityMax' = Max2(lq, linkQualityMax)
    /\ leds' = QualityLeds(lq)

\* PizBoat.handleClient, lines 136-140, seen from the socket: the peer answers
\* the messages of a connection in order, each ack with the ts of its message
PeerAckTs(w) == Head(w)

\* doLoop, lines 168-211, an ack that parses: ks are the ack's keys, lq its
\* linkQuality, trim, s, m the three readChannel results
AckReceived(ks, lq, trim, s, m) ==
    /\ rpc = "doLoop"
    /\ nbPackets < MaxPackets
    /\ nbPackets' = nbPackets + 1
    /\ wire' = Tail(Append(wire, Now(nbPackets + 1)))
    /\ IF ReadAckKeys \subseteq ks
       THEN /\ tsMessageSent' = Now(nbPackets + 1)
            /\ ack' = [keys |-> ks,
                       ts |-> PeerAckTs(Append(wire, Now(nbPackets + 1)))]
            /\ updateLinkQuality(lq)
            /\ cur' = Snapshot(lq, s + (trim - 32768), m)
            /\ rpc' = "w213"
            /\ UNCHANGED <<isConnected, cnt, rlog>>
       ELSE /\ leds' = [leds EXCEPT ![0] = 0]
            /\ Fatal("Caught exception KeyError")
            /\ UNCHANGED <<linkQualityMin, linkQualityMax, cur>>
    /\ UNCHANGED <<nbConnects, screenStats, published, screenVars>>

\* doLoop, line 213; ack and tsMessageSent are not modelled further (their
\* only later use is the log line of 217-221)
W213 ==
    /\ rpc = "w213"
    /\ screenStats' = [screenStats EXCEPT !.safran_val = cur.safran_val]
    /\ rpc' = "w214"
    /\ tsMessageSent' = 0
    /\ ack' = NoAck
    /\ UNCHANGED <<isConnected, cnt, nbConnects, nbPackets, linkQualityMin,
                   linkQualityMax, leds, cur, published, rlog, screenVars, wire>>

\* doLoop, line 214
W214 ==
    /\ rpc = "w214"
    /\ screenStats' = [screenStats EXCEPT !.moteur_val = cur.moteur_val]
    /\ rpc' = "w215"
    /\ UNCHANGED <<isConnected, cnt, nbConnects, nbPackets, linkQualityMin,
                   linkQualityMax, leds, cur, published, rlog, screenVars,
                   wire, tsMessageSent, ack>>

\* doLoop, lines 215-221, and run, lines 158, 133-135 and 154: the cycle ends
\* and the next one starts with LED 0 lit
W215 ==
    /\ rpc = "w215"
    /\ screenStats' = [screenStats EXCEPT !.linkQuality = cur.linkQuality]
    /\ published' = published \cup {screenStats'}
    /\ cnt' = 0
    /\ leds' = [leds EXCEPT ![0] = 1]
    /\ rpc' = "doLoop"
    /\ UNCHANGED <<isConnected, nbConnects, nbPackets, linkQualityMin,
                   linkQualityMax, cur, rlog, screenVars, wire,
                   tsMessageSent, ack>>

mainVars == <<rpc, isConnected, cnt, nbConnects, nbPackets, linkQualityMin,
              linkQualityMax, leds, screenStats, cur, published, rlog, wire,
              tsMessageSent, ack>>

\* updateScreenLoop, lines 224-226: the display thread finds isConnected true
ScreenWake ==
    /\ spc = "sleep"
    /\ isConnected
    /\ spc' = "r232"
    /\ UNCHANGED <<shown, mainVars>>

\* updateScreen, line 232
R232 ==
    /\ spc = "r232"
    /\ shown' = [shown EXCEPT !.linkQuality = screenStats.linkQuality]
    /\ spc' = "r233"
    /\ UNCHANGED mainVars

\* updateScreen, line 233
R233 ==
    /\ spc = "r233"
    /\ shown' = [shown EXCEPT !.safran_val = screenStats.safran_val]
    /\ spc' = "r234"
    /\ UNCHANGED mainVars

\* updateScreen, line 234
R234 ==
    /\ spc = "r234"
    /\ shown' = [shown EXCEPT !.moteur_val = screenStats.moteur_val]
    /\ spc' = "draw"
    /\ UNCHANGED mainVars

\* updateScreen, lines 236-242, and updateScreenLoop, lines 228-229: the
\* triple is drawn, updateScreen returns and its locals are gone
Draw ==
    /\ spc = "draw"
    /\ spc' = "sleep"
    /\ shown' = Snapshot(0, 0, 0)
    /\ UNCHANGED mainVars

RemoteNext ==
    \/ ConnectFail /\ UNCHANGED <<boatVars, actuatorVars, circVars>>
    \/ ConnectOk /\ UNCHANGED <<boatVars, actuatorVars, circVars>>
    \/ SendReset /\ UNCHANGED <<boatVars, actuatorVars, circVars>>
    \/ NoReadiness /\ UNCHANGED <<boatVars, actuatorVars, circVars>>
    \/ EmptyAck /\ UNCHANGED <<boatVars, actuatorVars, circVars>>
    \/ InvalidJson /\ UNCHANGED <<boatVars, actuatorVars, circVars>>
    \/ \E ks \in AckKeySets, lq \in LinkQualities, trim \in AdcReadings,
         s \in AdcReadings, m \in AdcReadings : AckReceived(ks, lq, trim, s, m) /\ UNCHANGED <<boatVars, actuatorVars, circVars>>
    \/ W213 /\ UNCHANGED <<boatVars, actuatorVars, circVars>>
    \/ W214 /\ UNCHANGED <<boatVars, actuatorVars, circVars>>
    \/ W215 /\ UNCHANGED <<boatVars, actuatorVars, circVars>>
    \/ ScreenWake /\ UNCHANGED <<boatVars, actuatorVars, circVars>>
    \/ R232 /\ UNCHANGED <<boatVars, actuatorVars, circVars>>
    \/ R233 /\ UNCHANGED <<boatVars, actuatorVars, circVars>>
    \/ R234 /\ UNCHANGED <<boatVars, actuatorVars, circVars>>
    \/ Draw /\ UNCHANGED <<boatVars, actuatorVars, circVars>>

\* the steps of the main thread (run, connect, doLoop) alone
LoopNext ==
    \/ ConnectFail /\ UNCHANGED <<boatVars, actuatorVars, circVars>>
    \/ ConnectOk /\ UNCHANGED <<boatVars, actuatorVars, circVars>>
    \/ SendReset /\ UNCHANGED <<boatVars, actuatorVars, circVars>>
    \/ NoReadiness /\ UNCHANGED <<boatVars, actuatorVars, circVars>>
    \/ EmptyAck /\ UNCHANGED <<boatVars, actuatorVars, circVars>>
    \/ InvalidJson /\ UNCHANGED <<boatVars, actuatorVars, circVars>>
    \/ \E ks \in AckKeySets, lq \in LinkQualities, trim \in AdcReadings,
         s \in AdcReadings, m \in AdcReadings :
           AckReceived(ks, lq, trim, s, m) /\ UNCHANGED <<boatVars, actuatorVars, circVars>>
    \/ W213 /\ UNCHANGED <<boatVars, actuatorVars, circVars>>
    \/ W214 /\ UNCHANGED <<boatVars, actuatorVars, circVars>>
    \/ W215 /\ UNCHANGED <<boatVars, actuatorVars, circVars>>

(***************************************************************************)
(* boat_serv.py: one call of Actuator.updateValue                          *)
(***************************************************************************)
\* the values json[self.name] ranges over: an unsigned 16-bit channel value,
\* below the 65536 of line 46
RawInputs == 0..65535

\* Actuator.__init__, lines 35-43, for the actuators configured at lines 55-59
Actuator(a) == [name |-> a, value |-> value_mid(a)]

\* value_mid + value_range / 2, line 42 (the ranges are even)
value_max(a) == (2 * value_mid(a) + value_range(a)) \div 2

InitActuator ==
    /\ actuator \in {Actuator(a) : a \in Actuators}
    /\ json \in RawInputs
    /\ conditioned = FALSE

\* no updateValue call under study
IdleActuator ==
    /\ actuator = Actuator("safran")
    /\ json = 0
    /\ conditioned = FALSE

\* Actuator.updateValue, lines 45-49, on the actuator under study
UpdateValue ==
    /\ ~conditioned
    /\ actuator' = [actuator EXCEPT !.value = updateValue(actuator.name, json)]
    /\ conditioned' = TRUE
    /\ UNCHANGED json

ActuatorNext == UpdateValue /\ UNCHANGED <<boatVars, remoteVars, circVars>>

(***************************************************************************)
(* CircBuffer                                                              *)
(***************************************************************************)
MaxSize == 3

MaxAdds == 5

\* the values given to add
Samples == {0, 1, 4}

\* a fraction num / den, den > 0
Fraction(n, d) == [num |-> n, den |-> d]

NoAverage == Fraction(0, 0)

RECURSIVE Sum(_)
\* sum() of a sequence
Sum(q) == IF q = <<>> THEN 0 ELSE Head(q) + Sum(Tail(q))

\* CircBuffer.__init__, lines 17-21, with max_size drawn from 1 .. MaxSize
InitCircBuffer ==
    /\ max_size \in 1..MaxSize
    /\ buffer = [i \in 0..(max_size - 1) |-> 0]
    /\ size = 0
    /\ index = 0
    /\ added = <<>>
    /\ averaged = NoAverage

\* no CircBuffer under study
IdleCircBuffer ==
    /\ max_size = 1
    /\ buffer = [i \in 0..0 |-> 0]
    /\ size = 0
    /\ index = 0
    /\ added = <<>>
    /\ averaged = NoAverage

\* add that fills the slots in turn and never comes back to slot 0
addNoWrap(v) ==
    /\ Len(added) < MaxAdds
    /\ buffer' = IF index < max_size THEN [buffer EXCEPT ![index] = v] ELSE buffer
    /\ index' = IF index < max_size THEN index + 1 ELSE index
    /\ size' = IF size < max_size THEN size + 1 ELSE size
    /\ added' = Append(added, v)
    /\ averaged' = NoAverage
    /\ UNCHANGED max_size

\* CircBuffer.add, lines 23-27
add(v) ==
    /\ Len(added) < MaxAdds
    /\ buffer' = [buffer EXCEPT ![index] = v]
    /\ index' = (index + 1) % max_size
    /\ size' = IF size < max_size THEN size + 1 ELSE size
    /\ added' = Append(added, v)
    /\ averaged' = NoAverage
    /\ UNCHANGED max_size

\* CircBuffer.average, lines 29-32: 0 for an empty buffer, else
\* sum(buffer[:size]) / size
average ==
    /\ averaged = NoAverage
    /\ averaged' = IF size = 0
                   THEN Fraction(0, 1)
                   ELSE Fraction(Sum([i \in 1..size |-> buffer[i - 1]]), size)
    /\ UNCHANGED <<buffer, size, max_size, index, added>>

CircBufferNext ==
    \/ (\E v \in Samples : add(v)) /\ UNCHANGED <<boatVars, remoteVars, actuatorVars>>
    \/ average /\ UNCHANGED <<boatVars, remoteVars, actuatorVars>>

(***************************************************************************)
(* remote_serv.py: updateLinkQuality on its own                            *)
(***************************************************************************)
MaxQuality == 72

\* the linkQuality values of an ack: -1 (unknown) and the readings
QualityInputs == (-1)..MaxQuality

\* doLoop, lines 209-211: the ack's linkQuality goes to updateLinkQuality
FeedLinkQuality(lq) ==
    /\ cur' = [cur EXCEPT !.linkQuality = lq]
    /\ updateLinkQuality(lq)
    /\ UNCHANGED <<rpc, isConnected, cnt, nbConnects, nbPackets, screenStats,
                   published, rlog, wire, tsMessageSent, ack, screenVars>>

LinkQualityNext ==
    \E lq \in QualityInputs :
        FeedLinkQuality(lq) /\ UNCHANGED <<boatVars, actuatorVars, circVars>>

(***************************************************************************)
(* Specifications                                                          *)
(***************************************************************************)
Init == InitBoat /\ InitRemote /\ IdleActuator /\ IdleCircBuffer

\* the actuator and the channel value of the call are drawn, the rest is idle
ActuatorInit == InitBoat /\ InitRemote /\ InitActuator /\ IdleCircBuffer

ActuatorSpec == ActuatorInit /\ [][ActuatorNext]_vars

\* the capacity of the buffer is drawn, the rest is idle
CircBufferInit == InitBoat /\ InitRemote /\ IdleActuator /\ InitCircBuffer

CircBufferSpec == CircBufferInit /\ [][CircBufferNext]_vars

LinkQualitySpec == Init /\ [][LinkQualityNext]_vars

BoatSpec == Init /\ [][BoatNext]_vars

RemoteSpec == Init /\ [][RemoteNext]_vars

\* PizRemote.run on its own thread, with connect attempts that eventually
\* succeed: run keeps calling connect while it is not connected (lines
\* 135-153), and an attempt that can succeed is not refused forever. The
\* display thread writes nothing that run or doLoop read.
RemoteLiveSpec ==
    /\ Init
    /\ [][LoopNext]_vars
    /\ WF_vars(ConnectOk /\ UNCHANGED <<boatVars, actuatorVars, circVars>>)

(***************************************************************************)
(* Vehicle server: session end and re-arming                               *)
(***************************************************************************)
\* the steps of handleClient that handle a payload json.loads accepted
HandledPayload ==
    /\ bpc = "active"
    /\ blog' \in {"safran= moteur= ecoute_gv= ecoute_foc=", "Unexpected KeyError",
                  "Unexpected ConnectionResetError"}

\* C1: whenever the server waits in accept after a session, the last pulse
\* width written to the moteur pin and to every safran pin is that actuator's
\* mid.
C1_NeutralBeforeAccept ==
    (bpc = "accept" /\ sessions > 0)
        => \A a \in {"moteur", "safran"} : \A p \in pin(a) : pwm[p] = value_mid(a)

\* C2: a parse failure or a failed ack send ends the session only: the
\* exception never leaves run.
C2_SessionLossKeepsServer ==
    blog \in {"Unexpected JSONDecodeError", "Unexpected ConnectionResetError"}
        => bpc # "raised"

\* C3: a received {safran, moteur, ts} message is answered by one ack echoing
\* its ts and the session stays Active (unless the send itself fails); for
\* {safran:32768, moteur:0, ts:1000} safran becomes 1450 and moteur 1000.
C3_RoundTrip ==
    [][(HandledPayload /\ json_data'.keys = DoLoopKeys
            /\ blog' # "Unexpected ConnectionResetError")
        => /\ bpc' = "active"
           /\ \E q \in LinkQualities : sent' = Append(sent, Ack(json_data'.ts, q))
           /\ (json_data'.val["safran"] = 32768 /\ json_data'.val["moteur"] = 0
                    /\ json_data'.ts = 1000)
                => (value'["safran"] = 1450 /\ value'["moteur"] = 1000)]_vars

\* C4: a message that lacks a declared channel or ts changes no actuator
\* value and no pulse width, and gets no ack.
C4_RejectedAsAWhole ==
    [][(HandledPayload /\ json_data'.keys # Keys)
        => UNCHANGED <<value, pwm, sent>>]_vars

\* C8: an idle timeout or a zero-byte read ends the session without an ack and
\* without an exception; run then re-arms, waits in accept and takes the next
\* client.
C8_IdleEndsSessionOnly ==
    [][/\ (bpc = "active" /\ blog' \in {"Not ready !", "Empty buffer !"})
            => (bpc' = "run" /\ sent' = sent)
       /\ (bpc = "run" /\ bpc' # bpc) => bpc' = "accept"
       /\ (bpc = "accept" /\ bpc' # bpc) => bpc' = "active"]_vars

\* a second client is being served after the first session ended idle
C8_Witness == sessions = 2 /\ bpc = "run" /\ blog = "Empty buffer !"

\* C9: when accept returns, every actuator's value is its mid.
C9_ValuesResetAtAccept ==
    blog = "client connected" => \A a \in Actuators : value[a] = value_mid(a)

\* C13: the server sends nothing but acks with status "ok" that echo the ts
\* of the message it has just handled, one per message it accepts; a new
\* client socket starts with nothing sent.
C13_OnlyEchoAcks ==
    [][/\ sent' # sent =>
            \/ (bpc = "accept" /\ sent' = <<>>)
            \/ /\ HandledPayload
               /\ json_data'.keys = Keys
               /\ Len(sent') = Len(sent) + 1
               /\ SubSeq(sent', 1, Len(sent)) = sent
               /\ sent'[Len(sent')].status = "ok"
               /\ sent'[Len(sent')].ts = json_data'.ts
       /\ (HandledPayload /\ bpc' = "active") => Len(sent') = Len(sent) + 1]_vars

\* two messages with different ts were acked in one session
C13_Witness ==
    bpc = "active" /\ Len(sent) = 2 /\ sent[1].ts = 1000 /\ sent[2].ts = 2000

\* C20 as claimed: once the ack for the last handled message is out, every
\* actuator's value and every pin's pulse width is that message's conditioned
\* channel value.
C20_AckedMeansApplied ==
    (sent # <<>> /\ json_data.keys = Keys /\ sent[Len(sent)].ts = json_data.ts)
        => \A a \in Actuators :
              /\ value[a] = updateValue(a, json_data.val[a])
              /\ \A p \in pin(a) : pwm[p] = value[a]

\* C20 as amended: the same, until run re-arms the moteur pin for the next
\* accept; the values and the other pins keep the message's values even then.
C20_AckedMeansAppliedUntilRearm ==
    (sent # <<>> /\ json_data.keys = Keys /\ sent[Len(sent)].ts = json_data.ts)
        => \A a \in Actuators :
              /\ value[a] = updateValue(a, json_data.val[a])
              /\ (bpc # "accept" \/ a # "moteur")
                    => \A p \in pin(a) : pwm[p] = value[a]

\* an acked message that moved the steering, the throttle and a sheet
C20_Witness ==
    /\ bpc = "active"
    /\ sent # <<>> /\ json_data.keys = Keys /\ sent[Len(sent)].ts = json_data.ts
    /\ pwm[23] = 1150 /\ pwm[24] = 1150 /\ pwm[25] = 1000 /\ pwm[27] = 950

(***************************************************************************)
(* Remote loop: connection state                                           *)
(***************************************************************************)
\* C5: after an ack that does not decode, the loop is Disconnected and back in
\* the connecting loop.
C5_BadAckIsLostConnection ==
    rlog = "Invalid JSON contents" => (~isConnected /\ rpc = "connecting")

\* C6: a select timeout, a zero-length read or a reset on send puts the loop in
\* the connecting loop with isConnected false, raises nothing out of run and
\* leaves the link-quality statistics and the snapshot as they were.
C6_LostConnection ==
    [][(rpc = "doLoop"
            /\ rlog' \in {"Lost connection !", "Empty ack message !", "Connection reset !"})
        => /\ ~isConnected'
           /\ rpc' = "connecting"
           /\ cnt' = 0
           /\ UNCHANGED <<linkQualityMin, linkQualityMax, screenStats>>]_vars

\* a connection that had published statistics is lost on its second life
C6_Witness ==
    /\ rpc = "connecting"
    /\ ~isConnected
    /\ rlog \in {"Lost connection !", "Empty ack message !", "Connection reset !"}
    /\ linkQualityMax > 0
    /\ nbConnects = 2

\* C7: as long as no connect has succeeded, the loop is in the connecting
\* loop, isConnected is false, doLoop has sent nothing and nothing was raised
\* out of run; each failed attempt adds one to the attempt counter.
C7_NeverConnected ==
    /\ [](nbConnects = 0 =>
            (rpc = "connecting" /\ ~isConnected /\ nbPackets = 0))
    /\ [][(rpc = "connecting" /\ nbConnects' = nbConnects /\ mainVars' # mainVars)
            => (cnt' = cnt + 1 /\ rpc' = "connecting" /\ ~isConnected')]_vars

C7_Witness == nbConnects = 0 /\ cnt >= 2 /\ rlog = "Could not connect"

\* C10: every triple updateScreen draws was published by one doLoop cycle (or
\* is the initial triple).
C10_NoTornSnapshot == spc = "draw" => shown \in published

\* C11: the running minimum is min(100, real readings): an ack with
\* linkQuality -1 never enters it.
C11_UnknownNotFolded == linkQualityMin >= 0

\* C14: the safran and moteur values doLoop put in the ControlMessage are
\* unsigned 16-bit integers.
C14_ChannelsAreUint16 ==
    rpc \in {"w213", "w214", "w215"}
        => (cur.safran_val \in 0..65535 /\ cur.moteur_val \in 0..65535)

\* C12: an ack that parses but lacks status, ts, myTs or linkQuality never
\* gets the loop past updateLinkQuality: when the loop is about to publish
\* the cycle's values, the ack it has read has all four fields.
C12_IncompleteAckIsFatal == rpc = "w213" => ack.keys = AckKeys

\* C19: at most one message is unanswered on a connection, none when a cycle
\* starts, and the ack a cycle accepts carries the ts of the message the
\* cycle sent: lag = tsMessageSent - ack.ts is 0.
C19_LockStep ==
    /\ Len(wire) <= 1
    /\ (rpc = "doLoop" => wire = <<>>)
    /\ (rpc = "w213" => (ack.ts = tsMessageSent /\ tsMessageSent - ack.ts = 0))

\* the second message, sent on the second connection, has been acked
C19_Witness ==
    rpc = "w213" /\ nbConnects = 2 /\ nbPackets = 2 /\ ack.ts = Now(2)

\* C18: a message is sent only while isConnected is true; every step that
\* makes isConnected true leaves the loop on a new socket, with nothing of an
\* earlier connection unanswered on it; and whenever isConnected is false it
\* becomes true again (as long as the model's cap on connects allows one).
C18_Reconnects ==
    /\ [][(nbPackets' # nbPackets \/ Len(wire') > Len(wire)) => isConnected]_vars
    /\ [][(~isConnected /\ isConnected') => wire' = <<>>]_vars
    /\ ((~isConnected /\ nbConnects < MaxConnects) ~> isConnected)

\* connected for the second time, after a message of the first connection
\* went unanswered
C18_Witness ==
    isConnected /\ nbConnects = 2 /\ nbPackets = 1 /\ rlog = "Connected !"

(***************************************************************************)
(* Signal conditioner, smoothing buffer, link-quality indicators           *)
(***************************************************************************)
\* C15: for every r in 0..65535 and every configured actuator, updateValue
\* leaves a value v with mid - range/2 <= v < mid + range/2 that is mid or at
\* least the dead range away from mid; r = 0 gives exactly mid - range/2.
C15_ConditionedValue ==
    conditioned =>
        LET a == actuator.name
            v == actuator.value
        IN /\ 2 * value_mid(a) - value_range(a) <= 2 * v
           /\ 2 * v < 2 * value_mid(a) + value_range(a)
           /\ (v = value_mid(a) \/ Abs(v - value_mid(a)) >= dead_range(a))
           /\ (json = 0 => 2 * v = 2 * value_mid(a) - value_range(a))
           /\ (json = 65535 => v < value_max(a))

\* the top raw value on the throttle gives 1799, one below mid + range/2
C15_Witness ==
    conditioned /\ actuator.name = "moteur" /\ json = 65535 /\ actuator.value = 1799

\* the number of LEDs lit
Lit(l) == Cardinality({p \in LedIdx : l[p] = 1})

\* C16: after updateLinkQuality, a quality of 30 or less lights no LED, 70 or
\* more lights all 8, the lit LEDs are the first k of the list, and a step to
\* a quality at least as high lights at least as many.
C16_QualityLeds ==
    /\ [][/\ cur'.linkQuality <= 30 => Lit(leds') = 0
          /\ cur'.linkQuality >= 70 => Lit(leds') = NbLeds
          /\ \A p \in LedIdx : leds'[p] = 1 <=> p < Lit(leds')
          /\ cur'.linkQuality >= cur.linkQuality => Lit(leds') >= Lit(leds)]_vars

\* a quality between the two ends lights a proper prefix
C16_Witness == cur.linkQuality = 45 /\ Lit(leds) = 3 /\ linkQualityMin < 45

\* the last k values given to add
LastAdded(k) == SubSeq(added, Len(added) - k + 1, Len(added))

\* C17: average() is the mean of the last min(count, N) values added, 0 for
\* an empty buffer, and size never exceeds N.
C17_AverageOfLast ==
    /\ size <= max_size
    /\ averaged # NoAverage =>
          LET k == IF Len(added) < max_size THEN Len(added) ELSE max_size
          IN IF k = 0
             THEN averaged.num = 0
             ELSE averaged.num * k = Sum(LastAdded(k)) * averaged.den

\* a buffer of two slots has wrapped and averages its last two values
C17_Witness ==
    /\ max_size = 2 /\ added = <<4, 1, 0, 4>>
    /\ averaged = Fraction(4, 2)

====
